---- MODULE Spec2Model ----
(***************************************************************************)
(* pdf-word-counter: the batch search pipeline of search.py (search_pdf,   *)
(* search_pdfs), the filename helpers and the page-range parser of         *)
(* utils.py, and the table helpers of output.py.                           *)
(*                                                                         *)
(* Text is a sequence of one-character strings (<<"a", ".", "p">> is       *)
(* "a.p"), so that splitting, stripping, globbing and comparing are        *)
(* computed character by character as Python does.                         *)
(***************************************************************************)
EXTENDS Integers, Sequences, FiniteSets

VARIABLES
    fs,          \* the file system: file name -> "missing" | "corrupt" | "ok"
    pdfs,        \* search_pdfs: the local `pdfs` (rebound to the sorted list)
    words,       \* search_pdfs: the search terms
    kwargs,      \* search_pdfs: **kwargs handed to every search_pdf call
    workers,     \* search_pdfs: workers
    ppdf,        \* search_pdfs: ppdf (0 stands for None)
    pc,          \* search_pdfs: position of the calling thread
    futs,        \* the pool's tasks, in submission order
    tables,      \* search_pdfs: the local `tables`
    bar,         \* tqdm's counter n
    milestones,  \* the indices i logged by the ppdf branch
    searched,    \* the documents search_pdf was started on, in start order
    exc,         \* the exception in flight in the calling thread
    sort_cols,   \* search_pdfs: sort_cols as given
    table,       \* search_pdfs: the local `table`
    printed,     \* the table was printed
    written,     \* the table was written to outfile
    outcome,     \* how the call ended: "none" | "returned" | an exception name
    HAS_PDFMINER, \* pdf_utils: whether pdfminer.six could be imported
    page_spec,   \* parse_page_range: the argument
    page_result  \* parse_page_range: the result

vars == <<fs, pdfs, words, kwargs, workers, ppdf, pc, futs, tables, bar, milestones,
          searched, exc, sort_cols, table, printed, written, outcome,
          HAS_PDFMINER, page_spec, page_result>>

(***************************************************************************)
(* Bounds of the model.                                                    *)
(***************************************************************************)
MaxDocs == 3
MaxWorkers == 2
MaxPpdf == 2
MaxSpecLen == 4

(***************************************************************************)
(* Characters and strings.                                                 *)
(***************************************************************************)
\* ord(c): the code point, which orders Python strings.
Ord(c) ==
    CASE c = " " -> 32 [] c = "*" -> 42 [] c = "," -> 44 [] c = "-" -> 45
      [] c = "." -> 46 [] c = "0" -> 48 [] c = "1" -> 49 [] c = "2" -> 50
      [] c = "3" -> 51 [] c = "4" -> 52 [] c = "5" -> 53 [] c = "A" -> 65
      [] c = "_" -> 95 [] c = "a" -> 97 [] c = "b" -> 98 [] c = "p" -> 112
      [] OTHER -> 120

IsDigit(c) == Ord(c) >= 48 /\ Ord(c) <= 57

DigitVal(c) == Ord(c) - 48

Min(a, b) == IF a <= b THEN a ELSE b

Max(a, b) == IF a >= b THEN a ELSE b

\* s < t for Python strings: the first differing character decides, a proper
\* prefix is smaller.
StrLess(s, t) ==
    \/ \E i \in 1..Min(Len(s), Len(t)) :
          /\ \A j \in 1..(i - 1) : s[j] = t[j]
          /\ Ord(s[i]) < Ord(t[i])
    \/ /\ Len(s) < Len(t)
       /\ \A j \in 1..Len(s) : s[j] = t[j]

\* str.strip(): leading and trailing whitespace removed.
RECURSIVE LStrip(_)
LStrip(s) == IF s # <<>> /\ Head(s) = " " THEN LStrip(Tail(s)) ELSE s

RECURSIVE RStrip(_)
RStrip(s) ==
    IF s # <<>> /\ s[Len(s)] = " " THEN RStrip(SubSeq(s, 1, Len(s) - 1)) ELSE s

Strip(s) == RStrip(LStrip(s))

\* str.split(sep) for a one-character sep: the parts between the separators,
\* empty parts kept.
RECURSIVE SplitFrom(_, _, _)
SplitFrom(s, sep, cur) ==
    IF s = <<>> THEN <<cur>>
    ELSE IF Head(s) = sep THEN <<cur>> \o SplitFrom(Tail(s), sep, <<>>)
    ELSE SplitFrom(Tail(s), sep, Append(cur, Head(s)))

Split(s, sep) == SplitFrom(s, sep, <<>>)

\* seq[idx] with Python's indexing: zero-based, negative from the end.
PyIndexOk(seq, idx) == -Len(seq) <= idx /\ idx < Len(seq)

PyIndex(seq, idx) == IF idx >= 0 THEN seq[idx + 1] ELSE seq[Len(seq) + idx + 1]

\* range(a, b) as a list.
RECURSIVE Range(_, _)
Range(a, b) == IF a >= b THEN <<>> ELSE <<a>> \o Range(a + 1, b)

\* All strings over an alphabet of at most n characters.
RECURSIVE StringsUpTo(_, _)
StringsUpTo(alphabet, n) ==
    IF n = 0 THEN {<<>>}
    ELSE LET shorter == StringsUpTo(alphabet, n - 1)
         IN  shorter \cup {Append(s, c) : s \in shorter, c \in alphabet}

(***************************************************************************)
(* utils.parse_page_range                                                  *)
(***************************************************************************)
\* int(s): surrounding whitespace ignored, then one or more digits; anything
\* else is a ValueError. (A token holding "-" never reaches int() whole.)
RECURSIVE DigitsValue(_, _)
DigitsValue(s, acc) ==
    IF s = <<>> THEN acc ELSE DigitsValue(Tail(s), 10 * acc + DigitVal(Head(s)))

IntOk(s) ==
    LET t == Strip(s)
    IN  t # <<>> /\ \A i \in 1..Len(t) : IsDigit(t[i])

IntOf(s) == DigitsValue(Strip(s), 0)

NoPages == [kind |-> "None", val |-> <<>>]

PagesList(l) == [kind |-> "list", val |-> l]

PagesError == [kind |-> "ValueError", val |-> <<>>]

\* One token of the spec, already stripped and not empty: the page indices it
\* contributes, or a ValueError.
ParseToken(part) ==
    IF \E i \in 1..Len(part) : part[i] = "-"
    THEN LET ends == Split(part, "-")
         IN  IF Len(ends) = 2 /\ IntOk(ends[1]) /\ IntOk(ends[2])
             THEN PagesList(Range(IntOf(ends[1]), IntOf(ends[2]) + 1))
             ELSE PagesError
    ELSE IF IntOk(part) THEN PagesList(<<IntOf(part)>>) ELSE PagesError

\* The loop over spec.split(","): the first failing token raises.
RECURSIVE ParseParts(_, _)
ParseParts(parts, pages) ==
    IF parts = <<>> THEN PagesList(pages)
    ELSE LET part == Strip(Head(parts))
         IN  IF part = <<>> THEN ParseParts(Tail(parts), pages)
             ELSE LET r == ParseToken(part)
                  IN  IF r.kind = "ValueError" THEN PagesError
                      ELSE ParseParts(Tail(parts), pages \o r.val)

\* spec is [none |-> BOOLEAN, s |-> string].
parse_page_range(spec) ==
    IF spec.none \/ spec.s = <<>> \/ Strip(spec.s) = <<>> THEN NoPages
    ELSE ParseParts(Split(spec.s, ","), <<>>)

(***************************************************************************)
(* The documents of the file system (pdf_utils).                           *)
(***************************************************************************)
NameA == <<"a">>

NameAB == <<"a", "_", "b">>

\* The names a file of the batch model can have. A name holding "*" names no
\* file.
FileNames == {NameA, NameAB}

\* The text of each page of a readable document.
PageTexts(pdf) ==
    IF pdf = NameA THEN << <<"a", "b">>, <<"A">> >>
    ELSE IF pdf = NameAB THEN << <<"b", "a", "a">> >>
    ELSE << <<"a">>, <<>>, <<"b", " ", "A">> >>

\* Whether opening and reading the document succeeds: a missing or corrupt
\* file makes the reader raise.
Readable(pdf) == pdf \in DOMAIN fs /\ fs[pdf] = "ok"

Exists(pdf) == pdf \in DOMAIN fs /\ fs[pdf] # "missing"

\* pdf_utils.extract_with_pypdf2: the texts of the selected pages, or an
\* error (unreadable file, page index out of range).
extract_with_pypdf2(pdf, page_numbers) ==
    LET texts == PageTexts(pdf)
        sel == IF page_numbers.none THEN Range(0, Len(texts)) ELSE page_numbers.val
    IN  IF ~Readable(pdf) \/ \E i \in 1..Len(sel) : ~PyIndexOk(texts, sel[i])
        THEN [ok |-> FALSE, texts |-> <<>>]
        ELSE [ok |-> TRUE, texts |-> [i \in 1..Len(sel) |-> PyIndex(texts, sel[i])]]

RECURSIVE Concat(_)
Concat(seqs) == IF seqs = <<>> THEN <<>> ELSE Head(seqs) \o Concat(Tail(seqs))

\* pdf_utils.extract_with_pdfminer: the concatenated text of the selected
\* pages; a page number the document does not have contributes nothing.
extract_with_pdfminer(pdf, page_numbers) ==
    LET texts == PageTexts(pdf)
    IN  IF ~Readable(pdf) THEN [ok |-> FALSE, text |-> <<>>]
        ELSE IF page_numbers.none THEN [ok |-> TRUE, text |-> Concat(texts)]
        ELSE [ok |-> TRUE,
              text |-> Concat([i \in 1..Len(page_numbers.val) |->
                          IF page_numbers.val[i] >= 0 /\ page_numbers.val[i] < Len(texts)
                          THEN texts[page_numbers.val[i] + 1] ELSE <<>>])]

\* pdf_utils.count_pages_with_pdfminer
count_pages_with_pdfminer(pdf) ==
    IF Readable(pdf) THEN [ok |-> TRUE, n |-> Len(PageTexts(pdf))]
    ELSE [ok |-> FALSE, n |-> 0]

(***************************************************************************)
(* Result rows: an OrderedDict, as a sequence of entries in insertion      *)
(* order. An entry is [k, kind, s, n]: column name, "str" | "int" | "none",*)
(* the string value, the integer value.                                    *)
(***************************************************************************)
StrVal(s) == [kind |-> "str", s |-> s, n |-> 0]

IntVal(n) == [kind |-> "int", s |-> <<>>, n |-> n]

NoneVal == [kind |-> "none", s |-> <<>>, n |-> 0]

Entry(k, v) == [k |-> k, kind |-> v.kind, s |-> v.s, n |-> v.n]

HasKey(row, k) == \E i \in 1..Len(row) : row[i].k = k

KeyPos(row, k) == CHOOSE i \in 1..Len(row) : row[i].k = k

\* row[k] = v: an existing key keeps its position.
Put(row, k, v) ==
    IF HasKey(row, k) THEN [row EXCEPT ![KeyPos(row, k)] = Entry(k, v)]
    ELSE Append(row, Entry(k, v))

\* row.update(other)
RECURSIVE Update(_, _)
Update(row, other) ==
    IF other = <<>> THEN row
    ELSE Update(Put(row, Head(other).k, Head(other)), Tail(other))

Keys(row) == [i \in 1..Len(row) |-> row[i].k]

(***************************************************************************)
(* utils.find_year, utils.apply_separators, utils.compile_words            *)
(***************************************************************************)
\* The first four consecutive digits of the name, or the default.
find_year(fname, default) ==
    LET starts == {i \in 1..(Len(fname) - 3) : \A j \in 0..3 : IsDigit(fname[i + j])}
    IN  IF starts = {} THEN default
        ELSE LET i == CHOOSE x \in starts : \A y \in starts : x <= y
             IN  StrVal(SubSeq(fname, i, i + 3))

\* The columns of one separator: cols is a sequence of [col, idx].
RECURSIVE SeparatorCols(_, _, _)
SeparatorCols(out, parts, cols) ==
    IF cols = <<>> THEN out
    ELSE LET c == Head(cols)
         IN  SeparatorCols(
                 IF PyIndexOk(parts, c.idx)
                 THEN Put(out, c.col, StrVal(Strip(PyIndex(parts, c.idx))))
                 ELSE out,
                 parts, Tail(cols))

\* mapping is a sequence of [sep, cols] in the dict's order.
RECURSIVE ApplyFrom(_, _, _)
ApplyFrom(out, fname, mapping) ==
    IF mapping = <<>> THEN out
    ELSE ApplyFrom(SeparatorCols(out, Split(fname, Head(mapping).sep), Head(mapping).cols),
                   fname, Tail(mapping))

apply_separators(fname, mapping) == ApplyFrom(<<>>, fname, mapping)

\* The keys of the dict compile_words builds: each word once, in first
\* occurrence order.
RECURSIVE compile_words(_)
compile_words(ws) ==
    IF ws = <<>> THEN <<>>
    ELSE LET rest == compile_words(SubSeq(ws, 1, Len(ws) - 1))
             w == ws[Len(ws)]
         IN  IF \E i \in 1..Len(rest) : rest[i] = w THEN rest ELSE Append(rest, w)

Lower(c) == IF c = "A" THEN "a" ELSE c

\* len(pat.findall(txt)) for a one-character pattern.
FindallCount(w, txt, ignore_case) ==
    Cardinality({i \in 1..Len(txt) :
                    IF ignore_case THEN Lower(txt[i]) = Lower(w) ELSE txt[i] = w})

(***************************************************************************)
(* search.search_pdf                                                       *)
(***************************************************************************)
\* Path(pdf).stem: the name without its last suffix.
Stem(name) ==
    LET dots == {i \in 1..Len(name) : name[i] = "."}
    IN  IF dots = {} THEN name
        ELSE LET i == CHOOSE x \in dots : \A y \in dots : y <= x
             IN  IF 1 < i /\ i < Len(name) THEN SubSeq(name, 1, i - 1) ELSE name

RECURSIVE ZeroCounters(_, _)
ZeroCounters(row, ws) ==
    IF ws = <<>> THEN row ELSE ZeroCounters(Put(row, Head(ws), IntVal(0)), Tail(ws))

\* RowSkeleton with the year column left out when the name holds no year.
RowSkeletonDropsYear(pdf, ws, kw) ==
    LET fname_full == pdf
        fname == IF kw.keep_extension THEN fname_full ELSE Stem(pdf)
        r1 == IF kw.include_filename THEN Put(<<>>, "file", StrVal(fname)) ELSE <<>>
        yr == find_year(fname_full, kw.default_year)
        r2 == IF kw.include_year /\ yr.kind # "none" THEN Put(r1, "year", yr) ELSE r1
        r3 == IF kw.separators # <<>>
              THEN Update(r2, apply_separators(fname, kw.separators)) ELSE r2
        r4 == IF kw.include_pages THEN Put(r3, "pages", IntVal(0)) ELSE r3
    IN  ZeroCounters(r4, ws)

\* The result row before extraction (search.py 61-73).
RowSkeleton(pdf, ws, kw) ==
    LET fname_full == pdf
        fname == IF kw.keep_extension THEN fname_full ELSE Stem(pdf)
        r1 == IF kw.include_filename THEN Put(<<>>, "file", StrVal(fname)) ELSE <<>>
        r2 == IF kw.include_year
              THEN Put(r1, "year", find_year(fname_full, kw.default_year)) ELSE r1
        r3 == IF kw.separators # <<>>
              THEN Update(r2, apply_separators(fname, kw.separators)) ELSE r2
        r4 == IF kw.include_pages THEN Put(r3, "pages", IntVal(0)) ELSE r3
    IN  ZeroCounters(r4, ws)

\* for w, pat in regexes.items(): row[w] = len(pat.findall(text))
RECURSIVE SetCounts(_, _, _, _)
SetCounts(row, regexes, text, ic) ==
    IF regexes = <<>> THEN row
    ELSE SetCounts(Put(row, Head(regexes), IntVal(FindallCount(Head(regexes), text, ic))),
                   Tail(regexes), text, ic)

\* for w, pat in regexes.items(): row[w] += len(pat.findall(txt))
RECURSIVE AddCounts(_, _, _, _)
AddCounts(row, regexes, txt, ic) ==
    IF regexes = <<>> THEN row
    ELSE LET w == Head(regexes)
         IN  AddCounts(Put(row, w, IntVal(row[KeyPos(row, w)].n + FindallCount(w, txt, ic))),
                       Tail(regexes), txt, ic)

RECURSIVE CountPages(_, _, _, _)
CountPages(row, regexes, page_texts, ic) ==
    IF page_texts = <<>> THEN row
    ELSE CountPages(AddCounts(row, regexes, Head(page_texts), ic),
                    regexes, Tail(page_texts), ic)

Raised == [ok |-> FALSE, row |-> <<>>]

Row(r) == [ok |-> TRUE, row |-> r]

\* search_pdf(pdf, words, **kw): the one-row table, or the extraction error.
\* (The texts are ASCII, on which Unicode normalisation changes nothing.)
search_pdf(pdf, ws, kw) ==
    LET row == RowSkeleton(pdf, ws, kw)
        regexes == compile_words(ws)
    IN  IF kw.use_pdfminer /\ HAS_PDFMINER
        THEN LET n == count_pages_with_pdfminer(pdf)
                 t == extract_with_pdfminer(pdf, kw.pages)
                 r1 == IF kw.include_pages THEN Put(row, "pages", IntVal(n.n)) ELSE row
             IN  IF (kw.include_pages /\ ~n.ok) \/ ~t.ok THEN Raised
                 ELSE Row(SetCounts(r1, regexes, t.text, kw.ignore_case))
        ELSE LET p == extract_with_pypdf2(pdf, kw.pages)
                 r1 == IF kw.include_pages
                       THEN Put(row, "pages",
                                IntVal(IF kw.pages.none THEN Len(p.texts)
                                       ELSE Len(kw.pages.val)))
                       ELSE row
             IN  IF ~p.ok THEN Raised
                 ELSE Row(CountPages(r1, regexes, p.texts, kw.ignore_case))

(***************************************************************************)
(* search.search_pdfs: resolving the documents (search.py 119-124)         *)
(***************************************************************************)
HasStar(s) == \E i \in 1..Len(s) : s[i] = "*"

\* fnmatch: "*" stands for any run of characters.
RECURSIVE Match(_, _)
Match(pat, name) ==
    IF pat = <<>> THEN name = <<>>
    ELSE IF Head(pat) = "*"
         THEN Match(Tail(pat), name) \/ (name # <<>> /\ Match(pat, Tail(name)))
         ELSE name # <<>> /\ Head(name) = Head(pat) /\ Match(Tail(pat), Tail(name))

\* A set as a list, in whatever order the directory scan gives.
RECURSIVE ListOf(_)
ListOf(S) ==
    IF S = {} THEN <<>>
    ELSE LET x == CHOOSE y \in S : TRUE IN <<x>> \o ListOf(S \ {x})

\* glob(pattern): the existing files the pattern matches.
glob(pattern) == ListOf({f \in DOMAIN fs : Exists(f) /\ Match(pattern, f)})

\* sorted(l) for a list of strings.
RECURSIVE Insert(_, _)
Insert(l, x) ==
    IF l = <<>> THEN <<x>>
    ELSE IF StrLess(x, Head(l)) THEN <<x>> \o l
    ELSE <<Head(l)>> \o Insert(Tail(l), x)

RECURSIVE sorted(_)
sorted(l) == IF l = <<>> THEN <<>> ELSE Insert(sorted(SubSeq(l, 1, Len(l) - 1)), l[Len(l)])

\* arg is [isstr |-> BOOLEAN, v |-> list]: a single string is v[1].
ResolvePdfs(arg) ==
    sorted(IF arg.isstr
           THEN IF HasStar(arg.v[1]) THEN glob(arg.v[1]) ELSE <<arg.v[1]>>
           ELSE arg.v)

(***************************************************************************)
(* output.py: the table helpers. A table is its column names, in order,    *)
(* and its rows.                                                           *)
(***************************************************************************)
NoTable == [built |-> FALSE, cols |-> <<>>, rows |-> <<>>]

\* The column names of the rows, each once, in first appearance order.
RECURSIVE UnionCols(_, _)
UnionCols(cols, names) ==
    IF names = <<>> THEN cols
    ELSE UnionCols(IF \E i \in 1..Len(cols) : cols[i] = Head(names)
                   THEN cols ELSE Append(cols, Head(names)),
                   Tail(names))

RECURSIVE StackCols(_, _)
StackCols(cols, tbls) ==
    IF tbls = <<>> THEN cols
    ELSE StackCols(UnionCols(cols, Keys(Head(tbls))), Tail(tbls))

\* stack_tables(tbls): vstack / concat, an outer join over the columns that
\* keeps the rows in the order given.
stack_tables(tbls) == [built |-> TRUE, cols |-> StackCols(<<>>, tbls), rows |-> tbls]

HasCol(tbl, c) == \E i \in 1..Len(tbl.cols) : tbl.cols[i] = c

\* v < w for two values of one column.
ValLess(v, w) ==
    IF v.kind = "int" /\ w.kind = "int" THEN v.n < w.n
    ELSE IF v.kind = "str" /\ w.kind = "str" THEN StrLess(v.s, w.s)
    ELSE FALSE

Cell(row, c) == IF HasKey(row, c) THEN row[KeyPos(row, c)] ELSE Entry(c, NoneVal)

\* r1 sorts before r2 by the columns, the first column the most significant.
RECURSIVE RowLess(_, _, _)
RowLess(r1, r2, cols) ==
    IF cols = <<>> THEN FALSE
    ELSE \/ ValLess(Cell(r1, Head(cols)), Cell(r2, Head(cols)))
         \/ /\ ~ValLess(Cell(r2, Head(cols)), Cell(r1, Head(cols)))
            /\ RowLess(r1, r2, Tail(cols))

IsSortedBy(rows, cols) ==
    \A i, j \in 1..Len(rows) : i < j => ~RowLess(rows[j], rows[i], cols)

\* The orders of the row positions S: every list holding each position once.
RECURSIVE RowOrders(_)
RowOrders(S) ==
    IF S = {} THEN {<<>>}
    ELSE UNION {{<<x>> \o f : f \in RowOrders(S \ {x})} : x \in S}

\* sort_table(tbl, cols): every table the backend's sort can give. Table.sort
\* and DataFrame.sort_values are called with their default algorithm, which
\* orders the rows by the columns, ascending, and promises nothing about rows
\* that tie. (The sort inputs name columns that every row has.)
sort_table(tbl, cols) ==
    {[tbl EXCEPT !.rows = [i \in 1..Len(tbl.rows) |-> tbl.rows[f[i]]]] :
        f \in {g \in RowOrders(1..Len(tbl.rows)) :
                 IsSortedBy([i \in 1..Len(tbl.rows) |-> tbl.rows[g[i]]], cols)}}

(***************************************************************************)
(* search.search_pdfs                                                      *)
(***************************************************************************)
NoKwargs ==
    [ignore_case |-> TRUE, pages |-> [none |-> TRUE, val |-> <<>>],
     include_pages |-> TRUE, include_year |-> FALSE, default_year |-> NoneVal,
     include_filename |-> TRUE, keep_extension |-> FALSE, separators |-> <<>>,
     use_pdfminer |-> FALSE]

\* The state of the calling thread and of the pool before search_pdfs is
\* entered.
Idle ==
    /\ pdfs = <<>> /\ words = <<>> /\ kwargs = NoKwargs /\ workers = 0 /\ ppdf = 0
    /\ futs = <<>> /\ tables = <<>> /\ bar = 0 /\ milestones = <<>>
    /\ searched = <<>> /\ exc = "none" /\ sort_cols = <<>> /\ table = NoTable
    /\ printed = FALSE /\ written = FALSE /\ outcome = "none"

NoPageCall == page_spec = [none |-> TRUE, s |-> <<>>] /\ page_result = NoPages

\* NoPdfs with the check never taken.
NoPdfsNever(l) == FALSE

\* if not pdfs (search.py 123)
NoPdfs(l) == l = <<>>

\* search_pdfs entered: the documents resolved, the empty list refused, the
\* branch chosen (search.py 119-129, 138).
Call(arg, ws, kw, w, p) ==
    /\ pc = "call"
    /\ pdfs' = ResolvePdfs(arg)
    /\ words' = ws /\ kwargs' = kw /\ workers' = w /\ ppdf' = p
    /\ IF NoPdfs(pdfs')
       THEN outcome' = "FileNotFoundError" /\ pc' = "raised"
       ELSE outcome' = outcome /\ pc' = IF w > 1 THEN "submit" ELSE "serial"
    /\ UNCHANGED <<fs, futs, tables, bar, milestones, searched, exc, sort_cols, table,
                   printed, written, HAS_PDFMINER, page_spec, page_result>>

Finished(f) == f.st \in {"done", "failed", "cancelled"}

Running == {k \in 1..Len(futs) : futs[k].st = "running"}

\* ex.submit(search_pdf, pdf, words, **kwargs) for the next pdf of the dict
\* comprehension (search.py 133).
Submit ==
    /\ pc = "submit"
    /\ futs' = Append(futs, [pdf |-> pdfs[Len(futs) + 1], st |-> "queued",
                             row |-> <<>>, got |-> FALSE])
    /\ pc' = IF Len(futs') = Len(pdfs) THEN "collect" ELSE "submit"
    /\ UNCHANGED <<fs, pdfs, words, kwargs, workers, ppdf, tables, bar, milestones,
                   searched, exc, sort_cols, table, printed, written, outcome,
                   HAS_PDFMINER, page_spec, page_result>>

\* WorkerFree for a pool that starts a thread for every task.
WorkerAlwaysFree == TRUE

\* ThreadPoolExecutor(max_workers=workers): a task starts only on a free
\* worker thread (search.py 130).
WorkerFree == Cardinality(Running) < workers

\* A worker thread takes the oldest queued task and enters search_pdf.
TaskStart(k) ==
    /\ k \in 1..Len(futs)
    /\ futs[k].st = "queued"
    /\ \A j \in 1..(k - 1) : futs[j].st # "queued"
    /\ WorkerFree
    /\ futs' = [futs EXCEPT ![k].st = "running"]
    /\ searched' = Append(searched, k)
    /\ UNCHANGED <<fs, pdfs, words, kwargs, workers, ppdf, pc, tables, bar, milestones,
                   exc, sort_cols, table, printed, written, outcome,
                   HAS_PDFMINER, page_spec, page_result>>

\* search_pdf returns or raises in its worker thread.
TaskFinish(k) ==
    /\ k \in 1..Len(futs)
    /\ futs[k].st = "running"
    /\ LET r == search_pdf(futs[k].pdf, words, kwargs)
       IN  futs' = [futs EXCEPT ![k].st = IF r.ok THEN "done" ELSE "failed",
                                ![k].row = r.row]
    /\ UNCHANGED <<fs, pdfs, words, kwargs, workers, ppdf, pc, tables, bar, milestones,
                   searched, exc, sort_cols, table, printed, written, outcome,
                   HAS_PDFMINER, page_spec, page_result>>

\* ShutdownFuts for shutdown(cancel_futures=True): the queued tasks are
\* cancelled.
ShutdownCancelFuts(f) ==
    [k \in 1..Len(f) |-> IF f[k].st = "queued" THEN [f[k] EXCEPT !.st = "cancelled"]
                         ELSE f[k]]

\* The executor's __exit__ is shutdown(wait=True), which cancels nothing: the
\* queued tasks stay queued for the worker threads (search.py 130).
ShutdownFuts(f) == f

\* PoolJoined for shutdown(wait=False): nothing is waited for.
PoolJoinedNoWait(f) == TRUE

\* shutdown(wait=True) returns once every worker thread has ended, that is
\* once no task is queued or running (search.py 130).
PoolJoined(f) == \A k \in 1..Len(f) : Finished(f[k])

\* Yieldable for a loop that may be handed a finished future again.
YieldableAgain(f) == f.st \in {"done", "failed"}

\* cf.as_completed(futs) yields each future once, when it has finished
\* (search.py 134).
Yieldable(f) == f.st \in {"done", "failed"} /\ ~f.got

\* One turn of `for fut in cf.as_completed(futs)`: a finished future not yet
\* yielded; its row is appended and the bar updated, or its exception leaves
\* the loop and the with block (search.py 134-136).
Collect(k) ==
    /\ pc = "collect"
    /\ k \in 1..Len(futs)
    /\ Yieldable(futs[k])
    /\ IF futs[k].st = "done"
       THEN /\ futs' = [futs EXCEPT ![k].got = TRUE]
            /\ tables' = Append(tables, futs[k].row)
            /\ bar' = bar + 1
            /\ pc' = IF \A j \in 1..Len(futs') : futs'[j].got THEN "stack" ELSE "collect"
            /\ UNCHANGED <<exc, outcome>>
       ELSE /\ futs' = ShutdownFuts([futs EXCEPT ![k].got = TRUE])
            /\ exc' = "ExtractionError"
            /\ IF PoolJoined(futs')
               THEN outcome' = "ExtractionError" /\ pc' = "raised"
               ELSE outcome' = outcome /\ pc' = "shutdown"
            /\ UNCHANGED <<tables, bar>>
    /\ UNCHANGED <<fs, pdfs, words, kwargs, workers, ppdf, milestones, searched,
                   sort_cols, table, printed, written, HAS_PDFMINER, page_spec,
                   page_result>>

\* The with block's exit has waited for the pool; the exception reaches the
\* caller.
ShutdownDone ==
    /\ pc = "shutdown"
    /\ PoolJoined(futs)
    /\ outcome' = exc
    /\ pc' = "raised"
    /\ UNCHANGED <<fs, pdfs, words, kwargs, workers, ppdf, futs, tables, bar, milestones,
                   searched, exc, sort_cols, table, printed, written,
                   HAS_PDFMINER, page_spec, page_result>>

\* max(1, math.ceil(len(pdfs) / ppdf))
Stride(n, p) == Max(1, (n + p - 1) \div p)

\* SerialStep with the extraction error swallowed: the loop goes on to the
\* next document.
SerialStepSkipsFailure ==
    /\ pc = "serial"
    /\ LET i == Len(searched) + 1
           r == search_pdf(pdfs[i], words, kwargs)
       IN  /\ milestones' = IF ppdf # 0 /\ (i - 1) % Stride(Len(pdfs), ppdf) = 0
                            THEN Append(milestones, i) ELSE milestones
           /\ searched' = Append(searched, i)
           /\ tables' = IF r.ok THEN Append(tables, r.row) ELSE tables
           /\ bar' = IF ppdf # 0 THEN bar ELSE bar + 1
           /\ pc' = IF i = Len(pdfs) THEN "stack" ELSE "serial"
    /\ UNCHANGED <<fs, pdfs, words, kwargs, workers, ppdf, futs, sort_cols, table,
                   printed, written, HAS_PDFMINER, page_spec, page_result, exc, outcome>>

\* One turn of a serial loop (search.py 139-147): with ppdf the milestone is
\* logged first; without it tqdm counts the turn once its body has ended.
SerialStep ==
    /\ pc = "serial"
    /\ LET i == Len(searched) + 1
           r == search_pdf(pdfs[i], words, kwargs)
       IN  /\ milestones' = IF ppdf # 0 /\ (i - 1) % Stride(Len(pdfs), ppdf) = 0
                            THEN Append(milestones, i) ELSE milestones
           /\ searched' = Append(searched, i)
           /\ IF r.ok
              THEN /\ tables' = Append(tables, r.row)
                   /\ bar' = IF ppdf # 0 THEN bar ELSE bar + 1
                   /\ pc' = IF i = Len(pdfs) THEN "stack" ELSE "serial"
                   /\ UNCHANGED <<exc, outcome>>
              ELSE /\ exc' = "ExtractionError"
                   /\ outcome' = "ExtractionError"
                   /\ pc' = "raised"
                   /\ UNCHANGED <<tables, bar>>
    /\ UNCHANGED <<fs, pdfs, words, kwargs, workers, ppdf, futs, sort_cols, table,
                   printed, written, HAS_PDFMINER, page_spec, page_result>>

\* KeptSortCols with the filter left out.
AllSortCols(sc, tbl) == sc

\* [c for c in sort_cols if c in table.columns] (search.py 152)
KeptSortCols(sc, tbl) == SelectSeq(sc, LAMBDA c : HasCol(tbl, c))

\* After the loop: the tables stacked, sorted by the sort columns the table
\* has, printed if show, written if outfile, and returned (search.py 149-163).
Finish(sc) ==
    /\ pc = "stack"
    /\ sort_cols' = sc
    /\ LET merged == stack_tables(tables)
           kept == KeptSortCols(sc, merged)
       IN  IF \E i \in 1..Len(kept) : ~HasCol(merged, kept[i])
           THEN /\ exc' = "KeyError" /\ outcome' = "KeyError" /\ pc' = "raised"
                /\ UNCHANGED <<table, printed, written>>
           ELSE /\ table' \in (IF kept # <<>> THEN sort_table(merged, kept) ELSE {merged})
                /\ \E show \in BOOLEAN : printed' = show
                /\ \E outfile \in BOOLEAN : written' = outfile
                /\ outcome' = "returned"
                /\ pc' = "done"
                /\ exc' = exc
    /\ UNCHANGED <<fs, pdfs, words, kwargs, workers, ppdf, futs, tables, bar, milestones,
                   searched, HAS_PDFMINER, page_spec, page_result>>

(***************************************************************************)
(* The batch model: one call of search_pdfs over a small file system.      *)
(***************************************************************************)
Star == <<"*">>

\* What a caller can name: the files and a glob pattern.
ArgPaths == FileNames \cup {Star}

Lists(S, n) == UNION {[1..m -> S] : m \in 0..n}

PdfsArgs ==
    {[isstr |-> TRUE, v |-> <<q>>] : q \in ArgPaths}
        \cup {[isstr |-> FALSE, v |-> l] : l \in Lists(ArgPaths, MaxDocs)}

BatchWords == {<<"a">>}

\* The cli's defaults, and a run with a separator column, the alternate
\* backend and no filename column.
BatchKwargs ==
    {NoKwargs,
     [NoKwargs EXCEPT !.include_filename = FALSE, !.use_pdfminer = TRUE,
                      !.separators = <<[sep |-> "_", cols |-> <<[col |-> "cat", idx |-> 1]>>]>>]}

SortColsArgs ==
    {<<>>, <<"a">>, <<"nope">>, <<"nope", "pages">>, <<"a", "nope", "file">>}

Init ==
    /\ fs \in [FileNames -> {"missing", "corrupt", "ok"}]
    /\ HAS_PDFMINER \in BOOLEAN
    /\ pc = "call"
    /\ Idle
    /\ NoPageCall

\* search_pdfs called with some arguments.
Enter ==
    /\ pc = "call"
    /\ \E arg \in PdfsArgs, ws \in BatchWords, kw \in BatchKwargs,
          w \in 0..MaxWorkers, p \in 0..MaxPpdf :
            \* ppdf is read by the serial branch alone
            (w > 1 => p = 0) /\ Call(arg, ws, kw, w, p)

\* search_pdfs ends with some sort_cols.
Return == pc = "stack" /\ \E sc \in SortColsArgs : Finish(sc)

Next ==
    \/ Enter
    \/ Submit
    \/ \E k \in 1..MaxDocs : TaskStart(k)
    \/ \E k \in 1..MaxDocs : TaskFinish(k)
    \/ \E k \in 1..MaxDocs : Collect(k)
    \/ ShutdownDone
    \/ SerialStep
    \/ Return

Spec == Init /\ [][Next]_vars

\* The worker threads of the pool keep running whatever the calling thread
\* does.
PoolStep == \E k \in 1..MaxDocs : TaskStart(k) \/ TaskFinish(k)

\* The calls that use the pool, the table returned as merged.
EnterPool ==
    /\ pc = "call"
    /\ \E arg \in PdfsArgs, w \in 2..MaxWorkers : Call(arg, <<"a">>, NoKwargs, w, 0)

ReturnMerged == Finish(<<>>)

NextPool ==
    \/ EnterPool
    \/ Submit
    \/ \E k \in 1..MaxDocs : TaskStart(k)
    \/ \E k \in 1..MaxDocs : TaskFinish(k)
    \/ \E k \in 1..MaxDocs : Collect(k)
    \/ ShutdownDone
    \/ ReturnMerged

\* ENABLED <<PoolStep>>_vars as a state predicate: a task runs, or the oldest
\* queued task has a free worker.
PoolCanStep ==
    \E k \in 1..Len(futs) :
        \/ futs[k].st = "running"
        \/ /\ futs[k].st = "queued"
           /\ WorkerFree
           /\ \A j \in 1..(k - 1) : futs[j].st # "queued"

\* Weak fairness of the pool's steps, WF_vars(PoolStep), written out with
\* PoolCanStep for the enabling condition: a worker thread that can take or
\* finish a task eventually does.
PoolFairness == []<>(~PoolCanStep) \/ []<><<PoolStep>>_vars

FairSpec == Init /\ [][NextPool]_vars /\ PoolFairness

(***************************************************************************)
(* search_pdf on its own: two documents searched under one configuration.  *)
(***************************************************************************)
RowNames ==
    {<<"a">>,
     <<"a", "_", "b">>,
     <<"a", "_", " ", "b", ".", "p">>,
     <<"2", "0", "2", "3", "_", "a", ".", "p">>}

Sep(c, cols) == [sep |-> c, cols |-> cols]

Col(name, i) == [col |-> name, idx |-> i]

RowSeparators ==
    {<<>>,
     <<Sep("_", <<Col("cat", 1)>>)>>,
     <<Sep("_", <<Col("cat", -2)>>), Sep(".", <<Col("ext", -1)>>)>>,
     <<Sep("_", <<Col("x", 1), Col("y", 0)>>), Sep(".", <<Col("x", 0)>>)>>,
     <<Sep("_", <<Col("file", 1)>>)>>}

RowKwargs ==
    {[ignore_case |-> ic, pages |-> [none |-> TRUE, val |-> <<>>],
      include_pages |-> ip, include_year |-> iy, default_year |-> NoneVal,
      include_filename |-> inf, keep_extension |-> ke, separators |-> sp,
      use_pdfminer |-> um] :
        ic \in BOOLEAN, ip \in BOOLEAN, iy \in BOOLEAN, inf \in BOOLEAN,
        ke \in BOOLEAN, sp \in RowSeparators, um \in BOOLEAN}

RowWords == {<<"a">>, <<"b", "a", "b">>}

\* The serial loop entered with two readable documents.
InitRow ==
    /\ fs = [n \in RowNames |-> "ok"]
    /\ HAS_PDFMINER \in BOOLEAN
    /\ pdfs \in {l \in [1..2 -> RowNames] : ~StrLess(l[2], l[1])}
    /\ words \in RowWords
    /\ kwargs \in RowKwargs
    /\ workers = 1 /\ ppdf = 0
    /\ pc = "serial"
    /\ futs = <<>> /\ tables = <<>> /\ bar = 0 /\ milestones = <<>>
    /\ searched = <<>> /\ exc = "none" /\ sort_cols = <<>> /\ table = NoTable
    /\ printed = FALSE /\ written = FALSE /\ outcome = "none"
    /\ NoPageCall

NextRow == SerialStep

SpecRow == InitRow /\ [][NextRow]_vars

(***************************************************************************)
(* parse_page_range on its own (cli.py 84).                                *)
(***************************************************************************)
PageAlphabet == {"1", "3", "-", ","}

\* The docstring's example and specs with blanks.
PageExamples ==
    {<<"1", ",", "3", "-", "5", ",", "-", "1">>,
     <<" ">>, <<" ", "3", " ", ",", ",", "1", "-", " ", "3">>, <<"5", "-", "3">>}

PageSpecs ==
    {[none |-> TRUE, s |-> <<>>]}
        \cup {[none |-> FALSE, s |-> t] :
                 t \in StringsUpTo(PageAlphabet, MaxSpecLen) \cup PageExamples}

Unparsed == [kind |-> "unset", val |-> <<>>]

InitPages ==
    /\ fs = [n \in FileNames |-> "missing"]
    /\ HAS_PDFMINER = FALSE
    /\ pc = "pages"
    /\ Idle
    /\ page_spec \in PageSpecs
    /\ page_result = Unparsed

\* pages = parse_page_range(args.pages); a ValueError ends the program.
ParsePages ==
    /\ pc = "pages"
    /\ page_result' = parse_page_range(page_spec)
    /\ pc' = IF page_result'.kind = "ValueError" THEN "raised" ELSE "parsed"
    /\ UNCHANGED <<fs, pdfs, words, kwargs, workers, ppdf, futs, tables, bar, milestones,
                   searched, exc, sort_cols, table, printed, written, outcome,
                   HAS_PDFMINER, page_spec>>

NextPages == ParsePages

SpecPages == InitPages /\ [][NextPages]_vars

(***************************************************************************)
(* The properties checked.                                                 *)
(***************************************************************************)
Threaded == pc # "call" /\ workers > 1 /\ pdfs # <<>>

Serial == pc # "call" /\ workers <= 1 /\ pdfs # <<>>

Ok(i) == search_pdf(pdfs[i], words, kwargs).ok

AllOk == \A i \in 1..Len(pdfs) : Ok(i)

\* The rows of the documents in the order of pdfs: what the serial loop
\* collects.
SerialRows == [i \in 1..Len(pdfs) |-> search_pdf(pdfs[i], words, kwargs).row]

ElemsOf(l) == {l[i] : i \in 1..Len(l)}

CountIn(x, l) == Cardinality({i \in 1..Len(l) : l[i] = x})

SameBag(l, m) == \A x \in ElemsOf(l) \cup ElemsOf(m) : CountIn(x, l) = CountIn(x, m)

SubBag(l, m) == \A x \in ElemsOf(l) : CountIn(x, l) <= CountIn(x, m)

AllFinished == \A k \in 1..Len(futs) : futs[k].st \in {"done", "failed"}

\* C1 as stated: in concurrent mode, once the failed task's result has been
\* collected the call has ended with the error, whether or not the other
\* dispatched tasks have finished, and no table is returned.
C1_EndsAtCollection ==
    (Threaded /\ exc = "ExtractionError") =>
        (outcome = "ExtractionError" /\ table = NoTable)

\* C1 amended: in concurrent mode, once the failed task's result has been
\* collected nothing more is collected (one failure taken, the rows and the
\* bar those of the results taken before it), no table is built, printed,
\* written or returned, and the call ends with the error only when every
\* submitted task has finished: the pool's exit waits for them.
C1_EndsAfterPoolJoined ==
    (Threaded /\ exc = "ExtractionError") =>
        /\ Cardinality({k \in 1..Len(futs) : futs[k].got /\ futs[k].st = "failed"}) = 1
        /\ Len(tables) = Cardinality({k \in 1..Len(futs) : futs[k].got /\ futs[k].st = "done"})
        /\ bar = Len(tables)
        /\ table = NoTable /\ ~printed /\ ~written
        /\ outcome \in {"none", "ExtractionError"}
        /\ (outcome = "ExtractionError" => AllFinished /\ Len(futs) = Len(pdfs))
        /\ (outcome = "none" => pc = "shutdown")

\* The failure has been collected after a first row, while one task runs and
\* another is still queued: the caller waits.
C1_Witness ==
    /\ Threaded /\ exc = "ExtractionError" /\ pc = "shutdown"
    /\ Len(tables) >= 1
    /\ \E k \in 1..Len(futs) : futs[k].st = "running"

\* C2: in concurrent mode every submitted task eventually returns a row or
\* raises, also when a sibling's error has been collected: nothing is
\* cancelled.
C2_EveryTaskCompletes ==
    \A k \in 1..MaxDocs :
        (k \in 1..Len(futs)) ~> (k \in 1..Len(futs) /\ futs[k].st \in {"done", "failed"})

\* A sibling's error has been collected while a task has not even started.
C2_Witness ==
    /\ Threaded /\ exc = "ExtractionError"
    /\ \E k \in 1..Len(futs) : futs[k].st = "queued"

\* C3 as stated: the rows of one batch have the same column names in the same
\* order.
C3_SameColumns ==
    \A i, j \in 1..Len(tables) : Keys(tables[i]) = Keys(tables[j])

FileName(pdf) == IF kwargs.keep_extension THEN pdf ELSE Stem(pdf)

SeparatorKeys(pdf) == Keys(apply_separators(FileName(pdf), kwargs.separators))

\* C3 amended: two rows of one batch have the same column names in the same
\* order whenever apply_separators gives the same columns for the two file
\* names (a separator column whose index is out of range for a name's parts is
\* left out of that document's row); the file names and contents make no
\* other difference.
C3_SameColumnsUnlessSeparatorsDiffer ==
    \A i, j \in 1..Len(tables) :
        SeparatorKeys(pdfs[i]) = SeparatorKeys(pdfs[j]) => Keys(tables[i]) = Keys(tables[j])

\* Two different documents, a separator column that both names have, a year
\* column that only one name fills: the rows agree on their columns.
C3_Witness ==
    /\ Len(tables) = 2 /\ pdfs[1] # pdfs[2]
    /\ kwargs.include_year /\ kwargs.separators # <<>>
    /\ SeparatorKeys(pdfs[1]) = SeparatorKeys(pdfs[2])
    /\ SeparatorKeys(pdfs[1]) # <<>>
    /\ \E c \in 1..Len(tables[1]) :
          tables[1][c].k = "year" /\ tables[1][c].kind # tables[2][c].kind

\* C4: the resolved list holds only concrete paths (no pattern left), no
\* path twice, in ascending order.
C4_ConcreteUniqueSorted ==
    pc # "call" =>
        /\ \A i \in 1..Len(pdfs) : ~HasStar(pdfs[i])
        /\ \A i, j \in 1..Len(pdfs) : i < j => pdfs[i] # pdfs[j]
        /\ \A i, j \in 1..Len(pdfs) : i < j => ~StrLess(pdfs[j], pdfs[i])

\* C5: when the patterns resolve to no document the call has ended with the
\* no-documents error and nothing was searched, submitted, collected, built,
\* printed or written.
C5_NoDocumentsHardStop ==
    (pc # "call" /\ pdfs = <<>>) =>
        /\ outcome = "FileNotFoundError" /\ pc = "raised"
        /\ searched = <<>> /\ futs = <<>> /\ tables = <<>>
        /\ table = NoTable /\ ~printed /\ ~written

\* A pattern that matches no file, or an empty list, has been refused.
C5_Witness == pc = "raised" /\ pdfs = <<>> /\ outcome = "FileNotFoundError"

\* C6: in serial mode no pool is used, the documents are searched in the
\* order of the sorted list, each after the one before it has succeeded, and
\* a failing document ends the call with the error: none after it is
\* searched, nothing is printed or written, no table is returned.
C6_SerialAbortsAtFailure ==
    Serial =>
        /\ futs = <<>>
        /\ \A i, j \in 1..Len(pdfs) : i < j => ~StrLess(pdfs[j], pdfs[i])
        /\ Len(searched) <= Len(pdfs)
        /\ \A i \in 1..Len(searched) : searched[i] = i
        /\ \A i \in 1..(Len(searched) - 1) : Ok(i)
        /\ Len(tables) = Cardinality({i \in 1..Len(searched) : Ok(i)})
        /\ (\E i \in 1..Len(searched) : ~Ok(i)) =>
              /\ exc = "ExtractionError" /\ outcome = "ExtractionError" /\ pc = "raised"
              /\ table = NoTable /\ ~printed /\ ~written

\* The second of three documents failed: the third was never searched.
C6_Witness ==
    /\ Serial /\ outcome = "ExtractionError"
    /\ Len(pdfs) = 3 /\ Len(searched) = 2 /\ Len(tables) = 1

\* What the claim reads a token as: an integer, negative or not, or start-end.
Digits(t) == t # <<>> /\ \A i \in 1..Len(t) : IsDigit(t[i])

ClaimTokenOk(t) ==
    \/ Digits(t)
    \/ t # <<>> /\ Head(t) = "-" /\ Digits(Tail(t))
    \/ Len(Split(t, "-")) = 2 /\ Digits(Split(t, "-")[1]) /\ Digits(Split(t, "-")[2])

ClaimToken(t) ==
    IF Digits(t) THEN <<DigitsValue(t, 0)>>
    ELSE IF Head(t) = "-" THEN <<0 - DigitsValue(Tail(t), 0)>>
    ELSE Range(DigitsValue(Split(t, "-")[1], 0), DigitsValue(Split(t, "-")[2], 0) + 1)

ClaimPages(s) ==
    LET parts == Split(s, ",")
    IN  Concat([i \in 1..Len(parts) |-> ClaimToken(parts[i])])

\* C7: a None or empty spec gives None, and a spec of integer and start-end
\* tokens gives the indices of its tokens in order, a negative integer token
\* included.
C7_ParsesTokens ==
    pc # "pages" =>
        /\ (page_spec.none \/ page_spec.s = <<>>) => page_result = NoPages
        /\ (/\ ~page_spec.none /\ page_spec.s # <<>>
            /\ \A i \in 1..Len(Split(page_spec.s, ",")) :
                  ClaimTokenOk(Split(page_spec.s, ",")[i])) =>
              page_result = PagesList(ClaimPages(page_spec.s))

\* The names of sort_cols that are columns of the stacked tables.
SortNamesInTable ==
    SelectSeq(sort_cols, LAMBDA c : \E r \in 1..Len(tables) : HasKey(tables[r], c))

\* Insertion sort that keeps the rows that tie in their order.
RECURSIVE StableInsert(_, _, _)
StableInsert(rows, r, cols) ==
    IF rows = <<>> THEN <<r>>
    ELSE IF RowLess(r, Head(rows), cols) THEN <<r>> \o rows
    ELSE <<Head(rows)>> \o StableInsert(Tail(rows), r, cols)

RECURSIVE StableSort(_, _)
StableSort(rows, cols) ==
    IF rows = <<>> THEN <<>>
    ELSE StableInsert(StableSort(SubSeq(rows, 1, Len(rows) - 1), cols), rows[Len(rows)], cols)

\* C8 as stated: no sort column raises, and the returned table is the merged
\* table sorted ascending and stably by the given names that are columns.
C8_StablySorted ==
    /\ outcome # "KeyError"
    /\ pc = "done" => table.rows = StableSort(tables, SortNamesInTable)

\* C8 amended: the names that are no column of the merged table are dropped
\* without raising, and the returned table holds the merged rows ordered
\* ascending by the remaining names in their given order; rows that tie on all
\* of them come in any order (the sort is not asked to be stable); when no
\* name remains the table is the merged one.
C8_SortedByKnownColumns ==
    /\ outcome # "KeyError"
    /\ pc = "done" =>
          /\ outcome = "returned" /\ table.built
          /\ table.cols = stack_tables(tables).cols
          /\ SameBag(table.rows, tables)
          /\ IsSortedBy(table.rows, SortNamesInTable)
          /\ (SortNamesInTable = <<>> => table.rows = tables)

\* Three rows, a known and an unknown sort column, and an order that the
\* sort had to change.
C8_Witness ==
    /\ pc = "done" /\ Len(tables) = 3
    /\ sort_cols = <<"nope", "pages">>
    /\ ~IsSortedBy(tables, <<"pages">>)
    /\ table.rows # tables

\* C9: in concurrent mode the tasks are the documents, one each in the order
\* of the list, and at most `workers` of them run at once.
C9_PoolBounded ==
    Threaded =>
        /\ Cardinality(Running) <= workers
        /\ Len(futs) <= Len(pdfs)
        /\ \A k \in 1..Len(futs) : futs[k].pdf = pdfs[k]
        /\ pc # "submit" => Len(futs) = Len(pdfs)
        /\ \A k \in 1..Len(searched) : CountIn(searched[k], searched) = 1

\* Every worker is busy and a task waits in the queue.
C9_Witness ==
    /\ Threaded /\ Cardinality(Running) = workers
    /\ \E k \in 1..Len(futs) : futs[k].st = "queued"

HasBar == workers > 1 \/ ppdf = 0

\* C10: when every document search succeeds, the rows collected so far are
\* rows of the documents, none twice, with the bar (where the branch has one)
\* at their number; after the loop there is one row per document, the same
\* rows as the serial order gives (in that order in serial mode), the bar is at
\* the document count, and the returned table holds these rows.
C10_SameRowsInBothModes ==
    (pc # "call" /\ pdfs # <<>> /\ AllOk) =>
        /\ SubBag(tables, SerialRows)
        /\ HasBar => bar = Len(tables)
        /\ pc \in {"stack", "done"} =>
              /\ Len(tables) = Len(pdfs)
              /\ SameBag(tables, SerialRows)
              /\ workers <= 1 => tables = SerialRows
              /\ HasBar => bar = Len(pdfs)
        /\ pc = "done" => SameBag(table.rows, SerialRows)

\* A concurrent run over three readable documents collected in another order
\* than the serial one.
C10_Witness ==
    /\ Threaded /\ AllOk /\ pc = "done"
    /\ Len(pdfs) = 3 /\ tables # SerialRows

====
